---- MODULE Spec2Model ----
(***************************************************************************)
(* Symbol table, attribute records, record builder and primitive registry  *)
(* of libexpr (symbol-table.hh, attr-set.cc, primops.hh).                  *)
(***************************************************************************)
EXTENDS Integers, Sequences, FiniteSets, TLC

(***************************************************************************)
(* Bounds of the model.                                                    *)
(***************************************************************************)
\* create() stops interning new text once the table holds this many entries
\* more than it held after construction.
MaxNew == 3
\* Width in bits of Bindings::size_t, scaled down from 32.
SizeBits == 2
\* allocBindings() is called with a non-zero capacity at most this often.
MaxAttrsets == 1
\* Direct allocBindings() calls stop once this many records exist.
MaxAllocs == 2
\* allocValue() is called at most this often.
MaxValues == 2
\* Threads that call create() on one table.
NumThreads == 2
\* At most this many descriptors are registered.
MaxPrimOps == 2

(***************************************************************************)
(* Texts handed to create(): the empty text, two texts no constructor      *)
(* interns, and two texts the SymbolTable constructor pre-inserts.         *)
(***************************************************************************)
Texts == {"", "foo", "bar", "logicAnd", "name"}

VARIABLES
    table,      \* dynamic type of the table: "MinimalSymbolTable" or "SymbolTable"
    store,      \* MinimalSymbolTable::store, the interned strings in insertion order
    symbols,    \* MinimalSymbolTable::symbols, text -> index into store (0-based)
    members,    \* the Symbol members of SymbolTable initialised so far, in order
    aborted,    \* TRUE once abort() was called: the process is gone
    last,       \* the most recent call: operation, argument, result, state before
    created,    \* text -> the identifiers create(text) returned to clients calling it
    emptyBindings,      \* EvalState::emptyBindings, the shared record of capacity 0
    heap,       \* the Bindings allocBindings() allocated; heap[a] lives at address a
    nrAttrsets,         \* EvalState::nrAttrsets
    nrAttrsInAttrsets,  \* EvalState::nrAttrsInAttrsets
    nrValues,   \* value cells handed out by allocValue(); a cell is named by its number
    builder,    \* the BindingsBuilder: its phase and the Bindings it owns
    vAttrs,     \* the Bindings a record-typed Value points to, or NoPtr
    appended,   \* address -> the attributes pushed onto that Bindings, in call order
    hist,       \* results of the calls so far while they follow Scenario, else Off
    primOps,    \* RegisterPrimOp::primOps, the registered descriptors
    enabledFeatures,    \* the experimental features the settings enable
    cells,      \* value cell -> the PrimOp stored in it
    baseEnv,    \* the Bindings of the top-level scope, NoPtr before initialisation
    threads,    \* thread -> where it is in its create() call, the text, the result
    overlap     \* texts looked up while another thread was about to insert them

symvars == <<table, store, symbols, members, aborted, last, created>>
evalvars == <<emptyBindings, heap, nrAttrsets, nrAttrsInAttrsets, nrValues, builder, vAttrs,
              appended, hist>>
regvars == <<primOps, enabledFeatures, cells, baseEnv>>
thrvars == <<threads, overlap>>
vars == <<table, store, symbols, members, aborted, last, created, emptyBindings, heap, nrAttrsets,
          nrAttrsInAttrsets, nrValues, builder, vAttrs, appended, hist,
          primOps, enabledFeatures, cells, baseEnv, threads, overlap>>

(***************************************************************************)
(* The members of SymbolTable in declaration (= initialisation) order,     *)
(* each with the text its initialiser passes to insert().                  *)
(***************************************************************************)
CommonSymbols == <<
    [member |-> "__contentAddressed", text |-> "__contentAddressed"],
    [member |-> "__functor", text |-> "__functor"],
    [member |-> "__ignoreNulls", text |-> "__ignoreNulls"],
    [member |-> "__impure", text |-> "__impure"],
    [member |-> "__operators", text |-> "__operators"],
    [member |-> "__overrides", text |-> "__overrides"],
    [member |-> "__structuredAttrs", text |-> "__structuredAttrs"],
    [member |-> "__toString", text |-> "__toString"],
    [member |-> "_combineChannels", text |-> "_combineChannels"],
    [member |-> "_type", text |-> "_type"],
    [member |-> "add", text |-> "add"],
    [member |-> "allOutputs", text |-> "allOutputs"],
    [member |-> "args", text |-> "args"],
    [member |-> "body", text |-> "body"],
    [member |-> "builder", text |-> "builder"],
    [member |-> "column", text |-> "column"],
    [member |-> "concat", text |-> "concat"],
    [member |-> "derivation", text |-> "derivation"],
    [member |-> "derivations", text |-> "derivations"],
    [member |-> "description", text |-> "description"],
    [member |-> "divide", text |-> "divide"],
    [member |-> "drvPath", text |-> "drvPath"],
    [member |-> "epsilon", text |-> ""],
    [member |-> "equal", text |-> "equal"],
    [member |-> "file", text |-> "file"],
    [member |-> "flake", text |-> "flake"],
    [member |-> "follows", text |-> "follows"],
    [member |-> "has", text |-> "has"],
    [member |-> "hydraJobs", text |-> "hydraJobs"],
    [member |-> "inputs", text |-> "inputs"],
    [member |-> "imply", text |-> "imply"],
    [member |-> "import", text |-> "import"],
    [member |-> "key", text |-> "key"],
    [member |-> "lessThan", text |-> "lessThan"],
    [member |-> "line", text |-> "line"],
    [member |-> "logicAnd", text |-> "logicOr"],
    [member |-> "logicNot", text |-> "logicNot"],
    [member |-> "logicOr", text |-> "logicAnd"],
    [member |-> "mainProgram", text |-> "mainProgram"],
    [member |-> "meta", text |-> "meta"],
    [member |-> "multiply", text |-> "multiply"],
    [member |-> "name", text |-> "name"],
    [member |-> "negate", text |-> "negate"],
    [member |-> "nixConfig", text |-> "nixConfig"],
    [member |-> "nixPath", text |-> "nixPath"],
    [member |-> "operator_", text |-> "operator"],
    [member |-> "or_", text |-> "or"],
    [member |-> "outPath", text |-> "outPath"],
    [member |-> "outputHash", text |-> "outputHash"],
    [member |-> "outputHashAlgo", text |-> "outputHashAlgo"],
    [member |-> "outputHashMode", text |-> "outputHashMode"],
    [member |-> "outputName", text |-> "outputName"],
    [member |-> "outputSpecified", text |-> "outputSpecified"],
    [member |-> "outputs", text |-> "outputs"],
    [member |-> "outputsToInstall", text |-> "outputsToInstall"],
    [member |-> "path", text |-> "path"],
    [member |-> "pname", text |-> "pname"],
    [member |-> "prefix", text |-> "prefix"],
    [member |-> "priority", text |-> "priority"],
    [member |-> "readFileType", text |-> "readFileType"],
    [member |-> "recurseForDerivations", text |-> "recurseForDerivations"],
    [member |-> "resolvePath", text |-> "resolvePath"],
    [member |-> "right", text |-> "right"],
    [member |-> "self", text |-> "self"],
    [member |-> "startSet", text |-> "startSet"],
    [member |-> "subtract", text |-> "subtract"],
    [member |-> "system", text |-> "system"],
    [member |-> "type", text |-> "type"],
    [member |-> "update", text |-> "update"],
    [member |-> "url", text |-> "url"],
    [member |-> "urls", text |-> "urls"],
    [member |-> "value", text |-> "value"],
    [member |-> "welcomeText", text |-> "welcomeText"],
    [member |-> "with", text |-> "<with>"],
    [member |-> "wrong", text |-> "wrong"]
>>

(***************************************************************************)
(* ChunkedVector<std::string, 8192>::add: appends the value, returns the   *)
(* index it was stored at.  Entries are never moved afterwards.            *)
(***************************************************************************)
ChunkedVectorAdd(st, value) ==
    [store |-> Append(st, value), idx |-> Len(st)]

\* std::unordered_map::emplace: inserts only if the key is not present yet.
emplace(sy, key, idx) ==
    IF key \in DOMAIN sy THEN sy ELSE sy @@ (key :> idx)

\* insert() returning Symbol(idx) instead of Symbol(idx + 1).
insert_offByOne(st, sy, s) ==
    LET a == ChunkedVectorAdd(st, s)
    IN  [store |-> a.store, symbols |-> emplace(sy, s, a.idx), id |-> a.idx]

\* insert() taking the identifier from store.size() after the add.
insert_sizeAfterAdd(st, sy, s) ==
    LET a == ChunkedVectorAdd(st, s)
    IN  [store |-> a.store, symbols |-> emplace(sy, s, a.idx), id |-> Len(a.store) + 1]

\* insert() that looks the text up once more and inserts only on a miss.
insert_lookupAgain(st, sy, s) ==
    IF s \in DOMAIN sy
    THEN [store |-> st, symbols |-> sy, id |-> sy[s] + 1]
    ELSE LET a == ChunkedVectorAdd(st, s)
         IN  [store |-> a.store, symbols |-> emplace(sy, s, a.idx), id |-> a.idx + 1]

\* MinimalSymbolTable::insert, unchecked.
insert(st, sy, s) ==
    LET a == ChunkedVectorAdd(st, s)
    IN  [store |-> a.store, symbols |-> emplace(sy, s, a.idx), id |-> a.idx + 1]

\* create() without the lookup: every call inserts.
create_noLookup(st, sy, s) == insert(st, sy, s)

\* create() returning Symbol(it->second.second) on a hit.
create_hitIndex(st, sy, s) ==
    IF s \in DOMAIN sy
    THEN [store |-> st, symbols |-> sy, id |-> sy[s]]
    ELSE insert(st, sy, s)

\* create() that takes a hit on index 0 for a miss.
create_indexZeroMiss(st, sy, s) ==
    IF s \in DOMAIN sy /\ sy[s] # 0
    THEN [store |-> st, symbols |-> sy, id |-> sy[s] + 1]
    ELSE insert(st, sy, s)

\* MinimalSymbolTable::create: lookup, insert on a miss.
create(st, sy, s) ==
    IF s \in DOMAIN sy
    THEN [store |-> st, symbols |-> sy, id |-> sy[s] + 1]
    ELSE insert(st, sy, s)

\* MinimalSymbolTable::size
size(st) == Len(st)

\* operator[] with the range check written s.id >= store.size().
operatorSubscript_geSize(st, id) ==
    IF id = 0 \/ id >= size(st)
    THEN [abort |-> TRUE,  text |-> ""]
    ELSE [abort |-> FALSE, text |-> st[id]]

\* MinimalSymbolTable::operator[]: abort() on an invalid identifier.
operatorSubscript(st, id) ==
    IF id = 0 \/ id > size(st)
    THEN [abort |-> TRUE,  text |-> ""]
    ELSE [abort |-> FALSE, text |-> st[id]]

\* ChunkedVector::forEach: the arguments the callback is called with, in
\* the order of the calls: every element, chunk after chunk, front to back.
forEach(st) == [i \in 1 .. Len(st) |-> st[i]]

\* dump() that walks the store from the newest entry to the oldest.
dump_backToFront(st) == {[i \in 1 .. Len(st) |-> st[Len(st) + 1 - i]]}

\* MinimalSymbolTable::dump: the possible sequences of callback arguments.
dump(st) == {forEach(st)}

(***************************************************************************)
(* SymbolTable::SymbolTable(): the base class is constructed first (empty  *)
(* store and index), then the members are initialised one by one, in       *)
(* declaration order, each by insert() of the text its initialiser names.  *)
(* A MinimalSymbolTable has no members.                                    *)
(***************************************************************************)
NumMembers == IF table = "SymbolTable" THEN Len(CommonSymbols) ELSE 0

Constructed == Len(members) = NumMembers

\* The member constant of that name, e.g. Member("epsilon").
Member(name) ==
    members[CHOOSE i \in 1 .. Len(CommonSymbols) : CommonSymbols[i].member = name]

\* Number of entries the table held when its constructor returned.
BaseSize == Len(members)

ConstructCall ==
    /\ ~Constructed
    /\ LET r == insert(store, symbols, CommonSymbols[Len(members) + 1].text)
       IN  /\ store' = r.store
           /\ symbols' = r.symbols
           /\ members' = Append(members, r.id)
    /\ UNCHANGED <<table, aborted, last, created>>

NoCall == [op |-> "none"]

InitTable ==
    /\ table \in {"MinimalSymbolTable", "SymbolTable"}
    /\ store = <<>>
    /\ symbols = <<>>
    /\ members = <<>>
    /\ aborted = FALSE
    /\ last = NoCall
    /\ created = [s \in Texts |-> {}]

(***************************************************************************)
(* A caller invokes create(s).                                             *)
(***************************************************************************)
CreateCall(s) ==
    /\ Constructed /\ ~aborted
    /\ s \in DOMAIN symbols \/ size(store) < BaseSize + MaxNew
    /\ LET r == create(store, symbols, s)
       IN  /\ store' = r.store
           /\ symbols' = r.symbols
           /\ created' = [created EXCEPT ![s] = @ \cup {r.id}]
           /\ last' = [op |-> "create", arg |-> s, id |-> r.id,
                       sizeBefore |-> size(store),
                       internedBefore |-> \E i \in 1 .. size(store) : store[i] = s,
                       again |-> created[s] # {}]
    /\ UNCHANGED <<table, members, aborted>>

(***************************************************************************)
(* A caller resolves an identifier: the invalid Symbol() (zero), one that  *)
(* create() handed out, or one beyond the entries (from another table).    *)
(***************************************************************************)
ResolveCall(id) ==
    /\ Constructed /\ ~aborted
    /\ LET r == operatorSubscript(store, id)
       IN  /\ aborted' = r.abort
           /\ last' = [op |-> "resolve", arg |-> id, abort |-> r.abort,
                       text |-> r.text, sizeBefore |-> size(store),
                       storeBefore |-> store, symbolsBefore |-> symbols]
    /\ UNCHANGED <<table, members, store, symbols, created>>

(***************************************************************************)
(* A caller enumerates the table with dump(callback); the callback notes   *)
(* what it is handed.                                                      *)
(***************************************************************************)
DumpCall ==
    /\ Constructed /\ ~aborted
    /\ \E visited \in dump(store) :
         last' = [op |-> "dump", visited |-> visited,
                  afterRecreate |-> last.op = "create" /\ last.again,
                  storeBefore |-> store, symbolsBefore |-> symbols]
    /\ UNCHANGED <<table, members, store, symbols, aborted, created>>


(***************************************************************************)
(* create() called from several threads with nothing serialising them.     *)
(* A call is two steps, symbols.find(s) and, on a miss, insert(s); steps   *)
(* of different threads interleave, each step runs on its own.             *)
(***************************************************************************)
Threads == 1 .. NumThreads

\* Texts the threads create: none of them pre-inserted by a constructor.
ThreadTexts == {"foo", "bar"}

Idle == [pc |-> "idle", arg |-> "", missed |-> FALSE, ret |-> 0]

InitThreads ==
    /\ threads = [t \in Threads |-> Idle]
    /\ overlap = {}

\* symbols.find(s) and the test it != symbols.end()
find(sy, s) ==
    IF s \in DOMAIN sy
    THEN [found |-> TRUE, id |-> sy[s] + 1]
    ELSE [found |-> FALSE, id |-> 0]

\* The threads that found s missing and have not inserted it yet.
InFlight(s) == {u \in Threads : threads[u].pc = "insert" /\ threads[u].arg = s}

\* Thread t enters create(s) and looks s up; on a hit it returns.
ThreadFind(t, s) ==
    /\ Constructed /\ ~aborted
    /\ threads[t].pc \in {"idle", "done"}
    /\ LET f == find(symbols, s)
           inserting == Cardinality({u \in Threads : threads[u].pc = "insert"})
       IN  /\ f.found \/ size(store) + inserting < BaseSize + MaxNew
           /\ threads' = [threads EXCEPT ![t] =
                             IF f.found
                             THEN [pc |-> "done", arg |-> s, missed |-> FALSE, ret |-> f.id]
                             ELSE [pc |-> "insert", arg |-> s, missed |-> TRUE, ret |-> 0]]
           /\ created' = IF f.found THEN [created EXCEPT ![s] = @ \cup {f.id}]
                          ELSE created
           /\ overlap' = IF InFlight(s) # {} THEN overlap \cup {s} ELSE overlap
    /\ UNCHANGED <<table, store, symbols, members, aborted, last, evalvars, regvars>>

\* Thread t, having missed, runs insert(s) and returns.
ThreadInsert(t) ==
    /\ threads[t].pc = "insert"
    /\ LET r == insert(store, symbols, threads[t].arg)
       IN  /\ store' = r.store
           /\ symbols' = r.symbols
           /\ threads' = [threads EXCEPT ![t].pc = "done", ![t].ret = r.id]
           /\ created' = [created EXCEPT ![threads[t].arg] = @ \cup {r.id}]
    /\ UNCHANGED <<table, members, aborted, last, overlap, evalvars, regvars>>

(***************************************************************************)
(* Attribute records.                                                      *)
(***************************************************************************)
\* std::numeric_limits<Bindings::size_t>::max()
BindingsSizeMax == 2 ^ SizeBits - 1

\* Capacities a caller asks for: zero, representable ones, one too big.
Capacities == {0, 1, 2, BindingsSizeMax, BindingsSizeMax + 1}

EmptyBindingsPtr == 0
NoPtr == -1

\* PosIdx values: noPos and one real position.
noPos == 0
Positions == {noPos, 1}

\* Bindings::Bindings(size_t capacity)
Bindings(capacity) == [size_ |-> 0, capacity_ |-> capacity, attrs |-> <<>>]

\* Attr(name, value, pos); pos defaults to noPos.
Attr(name, value, pos) == [name |-> name, value |-> value, pos |-> pos]

NoError == [msg |-> "", size |-> 0]

\* allocBindings() without the capacity == 0 shortcut.
allocBindings_noShared(ev, capacity) ==
    IF capacity > BindingsSizeMax
    THEN [ev |-> ev, ret |-> NoPtr,
          error |-> [msg |-> "attribute set of size %d is too big", size |-> capacity]]
    ELSE [ev |-> [nrAttrsets |-> ev.nrAttrsets + 1,
                  nrAttrsInAttrsets |-> ev.nrAttrsInAttrsets + capacity,
                  heap |-> Append(ev.heap, Bindings(capacity % (BindingsSizeMax + 1)))],
          ret |-> Len(ev.heap) + 1,
          error |-> NoError]

\* allocBindings() counting the record before it checks the size.
allocBindings_countFirst(ev, capacity) ==
    IF capacity = 0
    THEN [ev |-> ev, ret |-> EmptyBindingsPtr, error |-> NoError]
    ELSE IF capacity > BindingsSizeMax
    THEN [ev |-> [ev EXCEPT !.nrAttrsets = @ + 1, !.nrAttrsInAttrsets = @ + capacity],
          ret |-> NoPtr,
          error |-> [msg |-> "attribute set of size %d is too big", size |-> capacity]]
    ELSE [ev |-> [nrAttrsets |-> ev.nrAttrsets + 1,
                  nrAttrsInAttrsets |-> ev.nrAttrsInAttrsets + capacity,
                  heap |-> Append(ev.heap, Bindings(capacity % (BindingsSizeMax + 1)))],
          ret |-> Len(ev.heap) + 1,
          error |-> NoError]

\* allocBindings() counting the record before the capacity == 0 shortcut.
allocBindings_countEmpty(ev, capacity) ==
    IF capacity = 0
    THEN [ev |-> [ev EXCEPT !.nrAttrsets = @ + 1], ret |-> EmptyBindingsPtr,
          error |-> NoError]
    ELSE IF capacity > BindingsSizeMax
    THEN [ev |-> ev, ret |-> NoPtr,
          error |-> [msg |-> "attribute set of size %d is too big", size |-> capacity]]
    ELSE [ev |-> [nrAttrsets |-> ev.nrAttrsets + 1,
                  nrAttrsInAttrsets |-> ev.nrAttrsInAttrsets + capacity,
                  heap |-> Append(ev.heap, Bindings(capacity % (BindingsSizeMax + 1)))],
          ret |-> Len(ev.heap) + 1,
          error |-> NoError]

(***************************************************************************)
(* EvalState::allocBindings on ev = the evaluator's allocation state.      *)
(* The result is the state after the call, the returned address and the    *)
(* Error thrown, if any.                                                   *)
(***************************************************************************)
allocBindings(ev, capacity) ==
    IF capacity = 0
    THEN [ev |-> ev, ret |-> EmptyBindingsPtr, error |-> NoError]
    ELSE IF capacity > BindingsSizeMax
    THEN [ev |-> ev, ret |-> NoPtr,
          error |-> [msg |-> "attribute set of size %d is too big", size |-> capacity]]
    ELSE LET addr == Len(ev.heap) + 1
         IN  [ev |-> [nrAttrsets |-> ev.nrAttrsets + 1,
                      nrAttrsInAttrsets |-> ev.nrAttrsInAttrsets + capacity,
                      heap |-> Append(ev.heap, Bindings(capacity % (BindingsSizeMax + 1)))],
              ret |-> addr,
              error |-> NoError]

(***************************************************************************)
(* Bindings::push_back(attr): stores the attribute in the next free slot.  *)
(* With no free slot the call is a contract violation: the build either    *)
(* stops the process or writes past the array.                             *)
(***************************************************************************)
push_back(b, attr) ==
    LET stored == [b EXCEPT !.attrs = Append(@, attr), !.size_ = @ + 1]
    IN  IF b.size_ < b.capacity_
        THEN {[abort |-> FALSE, b |-> stored]}
        ELSE {[abort |-> TRUE, b |-> b], [abort |-> FALSE, b |-> stored]}

\* Attr::operator<: attributes are ordered by name alone.
AttrLess(a1, a2) == a1.name < a2.name

\* The arrangements std::sort may leave: no element is less than an earlier one.
SortedBy(seq) ==
    \A i, j \in 1 .. Len(seq) : i < j => ~AttrLess(seq[j], seq[i])

\* sort() that returns without sorting.
sort_noop(b) == {b}

\* sort() that orders the names and leaves values and positions in place.
sort_namesOnly(b) ==
    IF b.size_ # 0
    THEN { [b EXCEPT !.attrs = [i \in 1 .. Len(b.attrs) |->
                                   Attr(b.attrs[p[i]].name, b.attrs[i].value,
                                        b.attrs[i].pos)]] :
             p \in { q \in Permutations(1 .. Len(b.attrs)) :
                       SortedBy([i \in 1 .. Len(b.attrs) |-> b.attrs[q[i]]]) } }
    ELSE {b}

\* Bindings::sort(): the possible results (std::sort is not stable).
sort(b) ==
    IF b.size_ # 0
    THEN { [b EXCEPT !.attrs = [i \in 1 .. Len(b.attrs) |-> b.attrs[p[i]]]] :
             p \in { q \in Permutations(1 .. Len(b.attrs)) :
                       SortedBy([i \in 1 .. Len(b.attrs) |-> b.attrs[q[i]]]) } }
    ELSE {b}

\* The Bindings at an address; address 0 is &emptyBindings.
Deref(ptr) == IF ptr = EmptyBindingsPtr THEN emptyBindings ELSE heap[ptr]

\* EvalState::allocValue(): the next value cell.
allocValue(n) == n + 1

(***************************************************************************)
(* BindingsBuilder::alloc(Symbol name, PosIdx pos) on the Bindings b the    *)
(* builder owns, n value cells having been handed out: the outcomes.       *)
(***************************************************************************)
alloc(b, n, name, pos) ==
    LET value == allocValue(n)
    IN  { [abort |-> r.abort, b |-> r.b, nrValues |-> value, ret |-> value] :
            r \in push_back(b, Attr(name, value, pos)) }

\* allocAttr() that sorts the record after the append.
allocAttr_sorted(b, n, name) ==
    LET v == allocValue(n)
    IN  UNION { { [abort |-> r.abort, b |-> sb, nrValues |-> v, ret |-> v] :
                    sb \in sort(r.b) } :
                r \in push_back(b, Attr(name, v, noPos)) }

\* EvalState::allocAttr(Value & vAttrs, Symbol name) on b = *vAttrs.attrs.
allocAttr(b, n, name) ==
    LET v == allocValue(n)
    IN  { [abort |-> r.abort, b |-> r.b, nrValues |-> v, ret |-> v] :
            r \in push_back(b, Attr(name, v, noPos)) }

(***************************************************************************)
(* The scenario of calls the history is compared with.                     *)
(***************************************************************************)
Call(op, text, n) == [op |-> op, text |-> text, n |-> n]

Scenario == <<
    Call("create", "foo", 0),
    Call("create", "bar", 0),
    Call("create", "foo", 0),
    Call("buildBindings", "", 2),
    Call("alloc", "bar", 0),
    Call("alloc", "foo", 0),
    Call("finish", "", 0)
>>

Off == <<-1>>

\* hist after a call that returned ret.
Follow(call, ret) ==
    IF hist # Off /\ Len(hist) < Len(Scenario) /\ Scenario[Len(hist) + 1] = call
    THEN Append(hist, ret)
    ELSE Off

\* Texts the evaluator's clients name attributes with: one that is new to
\* the table and one the SymbolTable constructor interned.
AttrTexts == {"foo", "name"}

\* The texts of Scenario.
ScenarioTexts == {"foo", "bar"}

InitEval ==
    /\ emptyBindings = Bindings(0)
    /\ heap = <<>>
    /\ nrAttrsets = 0
    /\ nrAttrsInAttrsets = 0
    /\ nrValues = 0
    /\ builder = [state |-> "none", bindings |-> NoPtr]
    /\ vAttrs = NoPtr
    /\ appended = (EmptyBindingsPtr :> <<>>)
    /\ hist = <<>>

\* The evaluator's allocation state, as allocBindings() sees it.
Ev == [nrAttrsets |-> nrAttrsets, nrAttrsInAttrsets |-> nrAttrsInAttrsets, heap |-> heap]

SetEv(ev) ==
    /\ nrAttrsets' = ev.nrAttrsets
    /\ nrAttrsInAttrsets' = ev.nrAttrsInAttrsets
    /\ heap' = ev.heap
    /\ appended' = [a \in 0 .. Len(ev.heap) |->
                      IF a \in DOMAIN appended THEN appended[a] ELSE <<>>]

\* *ptr = b, with the attribute pushed (if one was) noted in appended.
SetBindings(ptr, b) ==
    /\ IF ptr = EmptyBindingsPtr
       THEN emptyBindings' = b /\ UNCHANGED heap
       ELSE heap' = [heap EXCEPT ![ptr] = b] /\ UNCHANGED emptyBindings
    /\ appended' = IF Len(b.attrs) > Len(Deref(ptr).attrs)
                   THEN [appended EXCEPT ![ptr] = Append(@, b.attrs[Len(b.attrs)])]
                   ELSE appended

AllocGuard(capacity) ==
    capacity \in 1 .. BindingsSizeMax => nrAttrsets < MaxAttrsets

(***************************************************************************)
(* A caller invokes symbols.create(s) on the evaluator's table.            *)
(***************************************************************************)
EvalCreate(s) ==
    /\ CreateCall(s)
    /\ hist' = Follow(Call("create", s, 0), create(store, symbols, s).id)
    /\ UNCHANGED <<emptyBindings, heap, nrAttrsets, nrAttrsInAttrsets, nrValues,
                   builder, vAttrs, appended, regvars, thrvars>>

(***************************************************************************)
(* A caller invokes allocBindings(capacity) directly.                      *)
(***************************************************************************)
AllocBindings(capacity) ==
    /\ Constructed /\ ~aborted
    /\ capacity \in 1 .. BindingsSizeMax => nrAttrsets < MaxAllocs
    /\ LET r == allocBindings(Ev, capacity)
       IN  /\ SetEv(r.ev)
           /\ last' = [op |-> "allocBindings", capacity |-> capacity, ret |-> r.ret,
                       error |-> r.error, nrAttrsetsBefore |-> nrAttrsets,
                       nrAttrsInAttrsetsBefore |-> nrAttrsInAttrsets,
                       heapSizeBefore |-> Len(heap)]
           /\ hist' = Follow(Call("allocBindings", "", capacity), r.ret)
    /\ UNCHANGED <<table, members, store, symbols, aborted, created, emptyBindings, nrValues,
                   builder, vAttrs, regvars, thrvars>>

(***************************************************************************)
(* EvalState::buildBindings(capacity): a new BindingsBuilder that owns     *)
(* allocBindings(capacity).  An Error thrown by allocBindings propagates   *)
(* and no builder comes into being.                                        *)
(***************************************************************************)
BuildBindings(capacity) ==
    /\ Constructed /\ ~aborted
    /\ builder.state # "building"
    /\ AllocGuard(capacity)
    /\ LET r == allocBindings(Ev, capacity)
       IN  /\ SetEv(r.ev)
           /\ builder' = IF r.error = NoError
                         THEN [state |-> "building", bindings |-> r.ret]
                         ELSE builder
           /\ last' = [op |-> "buildBindings", capacity |-> capacity, ret |-> r.ret,
                       error |-> r.error, nrAttrsetsBefore |-> nrAttrsets,
                       nrAttrsInAttrsetsBefore |-> nrAttrsInAttrsets,
                       heapSizeBefore |-> Len(heap)]
           /\ hist' = Follow(Call("buildBindings", "", capacity), r.ret)
    /\ UNCHANGED <<table, members, store, symbols, aborted, created, emptyBindings, nrValues,
                   vAttrs, regvars, thrvars>>

(***************************************************************************)
(* builder.alloc(std::string_view name, PosIdx pos)                        *)
(***************************************************************************)
BuilderAllocText(text, pos) ==
    /\ Constructed /\ ~aborted
    /\ builder.state = "building"
    /\ nrValues < MaxValues
    /\ LET c == create(store, symbols, text)
       IN  /\ store' = c.store
           /\ symbols' = c.symbols
           /\ \E r \in alloc(Deref(builder.bindings), nrValues, c.id, pos) :
                /\ SetBindings(builder.bindings, r.b)
                /\ nrValues' = r.nrValues
                /\ aborted' = r.abort
                /\ last' = [op |-> "alloc", name |-> c.id, pos |-> pos, ret |-> r.ret,
                            abort |-> r.abort, bindings |-> builder.bindings,
                            nrAttrsetsBefore |-> nrAttrsets,
                            nrAttrsInAttrsetsBefore |-> nrAttrsInAttrsets]
                /\ hist' = Follow(Call("alloc", text, 0), r.ret)
    /\ UNCHANGED <<table, members, created, nrAttrsets, nrAttrsInAttrsets, builder,
                   vAttrs, regvars, thrvars>>

\* BindingsBuilder::finish() on the Bindings the builder owns: sorts it.
finish(b) == sort(b)

(***************************************************************************)
(* builder.finish(): the record is sorted and handed to the caller.        *)
(***************************************************************************)
Finish ==
    /\ Constructed /\ ~aborted
    /\ builder.state = "building"
    /\ \E b \in finish(Deref(builder.bindings)) :
         /\ SetBindings(builder.bindings, b)
         /\ last' = [op |-> "finish", ret |-> builder.bindings, value |-> FALSE,
                     nrAttrsetsBefore |-> nrAttrsets,
                     nrAttrsInAttrsetsBefore |-> nrAttrsInAttrsets]
    /\ builder' = [builder EXCEPT !.state = "finished"]
    /\ hist' = Follow(Call("finish", "", 0), builder.bindings)
    /\ UNCHANGED <<table, members, store, symbols, aborted, created, nrAttrsets,
                   nrAttrsInAttrsets, nrValues, vAttrs, regvars, thrvars>>

(***************************************************************************)
(* Value::mkAttrs(BindingsBuilder &): the Value takes bindings.finish().   *)
(***************************************************************************)
MkAttrs ==
    /\ Constructed /\ ~aborted
    /\ builder.state = "building"
    /\ \E b \in finish(Deref(builder.bindings)) :
         /\ SetBindings(builder.bindings, b)
         /\ last' = [op |-> "finish", ret |-> builder.bindings, value |-> TRUE,
                     nrAttrsetsBefore |-> nrAttrsets,
                     nrAttrsInAttrsetsBefore |-> nrAttrsInAttrsets]
    /\ builder' = [builder EXCEPT !.state = "finished"]
    /\ vAttrs' = builder.bindings
    /\ hist' = Off
    /\ UNCHANGED <<table, members, store, symbols, aborted, created, nrAttrsets,
                   nrAttrsInAttrsets, nrValues, regvars, thrvars>>

(***************************************************************************)
(* allocAttr(vAttrs, std::string_view name)                                *)
(***************************************************************************)
AllocAttrText(text) ==
    /\ Constructed /\ ~aborted
    /\ vAttrs # NoPtr
    /\ nrValues < MaxValues
    /\ LET c == create(store, symbols, text)
       IN  /\ store' = c.store
           /\ symbols' = c.symbols
           /\ \E r \in allocAttr(Deref(vAttrs), nrValues, c.id) :
                /\ SetBindings(vAttrs, r.b)
                /\ nrValues' = r.nrValues
                /\ aborted' = r.abort
                /\ last' = [op |-> "allocAttr", name |-> c.id, ret |-> r.ret,
                            abort |-> r.abort, bindings |-> vAttrs,
                            before |-> Deref(vAttrs), nrValuesBefore |-> nrValues]
    /\ hist' = Off
    /\ UNCHANGED <<table, members, created, nrAttrsets, nrAttrsInAttrsets, builder,
                   vAttrs, regvars, thrvars>>

InitReg ==
    /\ primOps = <<>>
    /\ enabledFeatures = {}
    /\ cells = <<>>
    /\ baseEnv = NoPtr
    /\ InitThreads

(***************************************************************************)
(* The symbol table on its own: a MinimalSymbolTable or a SymbolTable.     *)
(***************************************************************************)
Construct == ConstructCall /\ UNCHANGED <<evalvars, regvars, thrvars>>

Create(s) == CreateCall(s) /\ UNCHANGED <<evalvars, regvars, thrvars>>

Resolve(id) == ResolveCall(id) /\ UNCHANGED <<evalvars, regvars, thrvars>>

Dump == DumpCall /\ UNCHANGED <<evalvars, regvars, thrvars>>

Init == InitTable /\ InitEval /\ InitReg

Next ==
    \/ Construct
    \/ \E s \in Texts : Create(s)
    \/ \E id \in 0 .. size(store) + 1 : Resolve(id)
    \/ Dump

Spec == Init /\ [][Next]_vars

(***************************************************************************)
(* One table shared by threads that call create() unserialised.            *)
(***************************************************************************)
NextThreads ==
    \/ Construct
    \/ \E t \in Threads, s \in ThreadTexts : ThreadFind(t, s)
    \/ \E t \in Threads : ThreadInsert(t)

SpecThreads == Init /\ [][NextThreads]_vars

(***************************************************************************)
(* The evaluator: its SymbolTable, its records and one builder.            *)
(***************************************************************************)
InitEvalState == InitTable /\ table = "SymbolTable" /\ InitEval /\ InitReg

NextEval ==
    \/ Construct
    \/ \E c \in Capacities : BuildBindings(c)
    \/ \E t \in AttrTexts, pos \in Positions : BuilderAllocText(t, pos)
    \/ Finish
    \/ MkAttrs
    \/ \E t \in AttrTexts : AllocAttrText(t)

SpecEval == InitEvalState /\ [][NextEval]_vars

(***************************************************************************)
(* The evaluator's allocation of records: direct allocBindings() calls     *)
(* between builders being opened, filled and finished.                     *)
(***************************************************************************)
NextAlloc ==
    \/ Construct
    \/ \E c \in Capacities : AllocBindings(c)
    \/ \E c \in Capacities : BuildBindings(c)
    \/ \E t \in AttrTexts : BuilderAllocText(t, noPos)
    \/ Finish

SpecAlloc == InitEvalState /\ [][NextAlloc]_vars

(***************************************************************************)
(* The evaluator driven with the calls and arguments of Scenario, in any   *)
(* order and any number of times.                                          *)
(***************************************************************************)
NextScenario ==
    \/ Construct
    \/ \E s \in ScenarioTexts : EvalCreate(s)
    \/ BuildBindings(2)
    \/ \E t \in ScenarioTexts : BuilderAllocText(t, noPos)
    \/ Finish

SpecScenario == InitEvalState /\ [][NextScenario]_vars

(***************************************************************************)
(* The primitive registry.                                                 *)
(***************************************************************************)
\* std::optional<ExperimentalFeature>: no feature, or one the settings know.
NoFeature == "none"
Features == {"flakes"}

\* RegisterPrimOp::Info, without the function pointer.
Info(name, args, arity, doc, experimentalFeature) ==
    [name |-> name, args |-> args, arity |-> arity, doc |-> doc,
     experimentalFeature |-> experimentalFeature]

PrimOpNames == {"foo", "bar"}
PrimOpArities == {1, 2}

\* The descriptors registration calls pass.
Infos ==
    { Info(n, <<>>, a, d, f) :
        n \in PrimOpNames, a \in PrimOpArities, d \in {"", "doc"},
        f \in {NoFeature} \cup Features }

\* The PrimOp a value cell holds for a descriptor.
PrimOp(info) == [name |-> info.name, arity |-> info.arity, doc |-> info.doc]

\* The drain without the feature test.
Exposed_ungated(info, enabled) == TRUE

\* A descriptor is exposed unless it requires a feature that is not enabled.
Exposed(info, enabled) ==
    info.experimentalFeature = NoFeature \/ info.experimentalFeature \in enabled

\* The exposed descriptors, in registry order.
ExposedPrimOps(ops, enabled) ==
    SelectSeq(ops, LAMBDA info : Exposed(info, enabled))

(***************************************************************************)
(* RegisterPrimOp(name, arity, fun): before any evaluator is constructed.  *)
(***************************************************************************)
RegisterPrimOp(name, arity) ==
    /\ store = <<>>
    /\ Len(primOps) < MaxPrimOps
    /\ primOps' = Append(primOps, Info(name, <<>>, arity, "", NoFeature))
    /\ UNCHANGED <<symvars, evalvars, thrvars, enabledFeatures, cells, baseEnv>>

(***************************************************************************)
(* RegisterPrimOp(Info && info)                                            *)
(***************************************************************************)
RegisterPrimOpInfo(info) ==
    /\ store = <<>>
    /\ Len(primOps) < MaxPrimOps
    /\ primOps' = Append(primOps, info)
    /\ UNCHANGED <<symvars, evalvars, thrvars, enabledFeatures, cells, baseEnv>>

(***************************************************************************)
(* The settings enable an experimental feature before the evaluator is     *)
(* initialised.                                                            *)
(***************************************************************************)
EnableFeature(f) ==
    /\ baseEnv = NoPtr
    /\ f \notin enabledFeatures
    /\ enabledFeatures' = enabledFeatures \cup {f}
    /\ UNCHANGED <<symvars, evalvars, thrvars, primOps, cells, baseEnv>>

(***************************************************************************)
(* The drain: every exposed descriptor, in registry order, gets a slot     *)
(* named by its name and a value cell holding its PrimOp.  The state t is  *)
(* the table, the record being built, the cells and their number.          *)
(***************************************************************************)
RECURSIVE DeclarePrimOps(_, _, _)
DeclarePrimOps(t, ops, i) ==
    IF i > Len(ops) \/ t.abort THEN {t}
    ELSE LET c == create(t.store, t.symbols, ops[i].name)
         IN  UNION { DeclarePrimOps(
                         [store |-> c.store, symbols |-> c.symbols, b |-> r.b,
                          nrValues |-> r.nrValues, abort |-> r.abort,
                          cells |-> IF r.abort THEN t.cells
                                    ELSE t.cells @@ (r.ret :> PrimOp(ops[i]))],
                         ops, i + 1) :
                     r \in alloc(t.b, t.nrValues, c.id, noPos) }

(***************************************************************************)
(* Evaluator initialisation drains the registry, once, into the record of  *)
(* the top-level scope: open, declare every exposed descriptor, finish.    *)
(***************************************************************************)
CreateBaseEnv ==
    /\ Constructed /\ ~aborted
    /\ baseEnv = NoPtr
    /\ LET ops == ExposedPrimOps(primOps, enabledFeatures)
           a == allocBindings(Ev, Len(ops))
       IN  /\ a.error = NoError
           /\ nrAttrsets' = a.ev.nrAttrsets
           /\ nrAttrsInAttrsets' = a.ev.nrAttrsInAttrsets
           /\ \E t \in DeclarePrimOps(
                          [store |-> store, symbols |-> symbols,
                           b |-> IF a.ret = EmptyBindingsPtr THEN emptyBindings
                                 ELSE a.ev.heap[a.ret],
                           nrValues |-> nrValues, abort |-> FALSE, cells |-> cells],
                          ops, 1) :
                \E b \in IF t.abort THEN {t.b} ELSE finish(t.b) :
                  /\ store' = t.store
                  /\ symbols' = t.symbols
                  /\ nrValues' = t.nrValues
                  /\ cells' = t.cells
                  /\ aborted' = t.abort
                  /\ IF a.ret = EmptyBindingsPtr
                     THEN emptyBindings' = b /\ heap' = a.ev.heap
                     ELSE heap' = [a.ev.heap EXCEPT ![a.ret] = b]
                          /\ UNCHANGED emptyBindings
                  /\ appended' = [p \in 0 .. Len(a.ev.heap) |->
                                    IF p = a.ret THEN t.b.attrs
                                    ELSE IF p \in DOMAIN appended THEN appended[p]
                                    ELSE <<>>]
                  /\ baseEnv' = IF t.abort THEN NoPtr ELSE a.ret
                  /\ builder' = [state |-> IF t.abort THEN "building" ELSE "finished",
                                 bindings |-> a.ret]
           /\ last' = [op |-> "createBaseEnv", ret |-> a.ret]
    /\ hist' = Off
    /\ UNCHANGED <<table, members, created, vAttrs, primOps, enabledFeatures, thrvars>>

InitRegistry ==
    /\ InitTable /\ table = "SymbolTable"
    /\ InitEval
    /\ InitThreads
    /\ primOps = <<>>
    /\ enabledFeatures = {}
    /\ cells = <<>>
    /\ baseEnv = NoPtr

NextRegistry ==
    \/ \E n \in PrimOpNames, a \in PrimOpArities : RegisterPrimOp(n, a)
    \/ \E info \in Infos : RegisterPrimOpInfo(info)
    \/ \E f \in Features : EnableFeature(f)
    \/ Construct
    \/ CreateBaseEnv

SpecRegistry == InitRegistry /\ [][NextRegistry]_vars

(***************************************************************************)
(* Properties of the symbol table (specification Spec).                    *)
(***************************************************************************)

\* C1: every text has at most one identifier over all the create() calls
\* made for it, that identifier is not zero, and a create() of a text that
\* was created before leaves size() as it was.
CreateIdempotent ==
    /\ \A s \in Texts : Cardinality(created[s]) <= 1 /\ 0 \notin created[s]
    /\ (last.op = "create" /\ last.again) => size(store) = last.sizeBefore

\* A text was created a second time.
CreateIdempotentWitness ==
    /\ last.op = "create"
    /\ last.again
    /\ last.id \in created[last.arg]

\* C2: the identifiers create() returned for two distinct texts are distinct,
\* whatever the order of the calls.
CreateInjective ==
    \A s1, s2 \in Texts : s1 # s2 => created[s1] \cap created[s2] = {}

\* Three distinct texts have been created.
CreateInjectiveWitness ==
    \E s1, s2, s3 \in Texts :
        /\ Cardinality({s1, s2, s3}) = 3
        /\ created[s1] # {} /\ created[s2] # {} /\ created[s3] # {}

\* C3: an identifier create(s) returned resolves to s, without aborting, in
\* every later state of the table; a resolve() call of such an identifier
\* returned s.
ResolveRoundTrip ==
    /\ \A s \in Texts : \A id \in created[s] :
           operatorSubscript(store, id) = [abort |-> FALSE, text |-> s]
    /\ last.op = "resolve" =>
           \A s \in Texts : last.arg \in created[s] => ~last.abort /\ last.text = s

\* On a SymbolTable, whose constructor interned the empty text, create("")
\* was called and its identifier resolved.
ResolveRoundTripWitness ==
    /\ table = "SymbolTable"
    /\ last.op = "resolve"
    /\ last.arg \in created[""]
    /\ last.text = ""
    /\ ~last.abort

\* C4: resolve(id) aborts exactly when id is zero or greater than size();
\* otherwise it returns the text of entry id; in both cases the table is
\* as it was before the call, and after an abort nothing runs any more.
ResolveAbortsExactly ==
    last.op = "resolve" =>
        /\ last.abort <=> (last.arg = 0 \/ last.arg > last.sizeBefore)
        /\ ~last.abort => last.text = store[last.arg]
        /\ aborted <=> last.abort
        /\ store = last.storeBefore
        /\ symbols = last.symbolsBefore

\* resolve(size()) returned a text after entries were created.
ResolveAbortsExactlyWitness ==
    /\ last.op = "resolve"
    /\ last.arg = size(store)
    /\ size(store) > BaseSize
    /\ ~last.abort

\* C11: dump() hands the callback every entry of the table exactly once,
\* in insertion order: as many arguments as size(), the i-th being the
\* text identifier i resolves to, every interned text among them once; the
\* table is as it was before the call.  This holds after any create()
\* calls, repeated ones included.
DumpInInsertionOrder ==
    last.op = "dump" =>
        /\ Len(last.visited) = size(store)
        /\ \A i \in 1 .. size(store) :
               last.visited[i] = operatorSubscript(store, i).text
        /\ \A s \in DOMAIN symbols :
               Cardinality({i \in 1 .. Len(last.visited) : last.visited[i] = s}) = 1
        /\ \A s \in Texts : created[s] # {} =>
               \E i \in 1 .. Len(last.visited) : last.visited[i] = s
        /\ store = last.storeBefore
        /\ symbols = last.symbolsBefore

\* dump() ran right after a text was created a second time, on a table
\* that clients had added two entries to.
DumpInInsertionOrderWitness ==
    /\ last.op = "dump"
    /\ last.afterRecreate
    /\ size(store) >= BaseSize + 2
    /\ Len(last.visited) = size(store)

\* A create() call returned: what it did to size().
CreateDense ==
    last.op = "create" =>
        IF last.internedBefore
        THEN size(store) = last.sizeBefore
        ELSE last.id = last.sizeBefore + 1 /\ size(store) = last.sizeBefore + 1

\* No step changes what an identifier in 1 .. size() resolves to.
IdentifiersStable ==
    store' # store =>
        \A id \in 1 .. size(store) :
            operatorSubscript(store', id) = operatorSubscript(store, id)

\* C12: create() of a text that is not interned returns size() + 1, size()
\* taken before the call, and makes size() one larger; create() of an
\* interned text leaves size() as it was; and every identifier in
\* 1 .. size() resolves to the same text after any later call.
DenseAndStable == []CreateDense /\ [][IdentifiersStable]_vars

\* A new text was created after another one, and the identifier of the
\* earlier one still resolves to it.
DenseAndStableWitness ==
    /\ last.op = "create"
    /\ ~last.internedBefore
    /\ last.id = BaseSize + 2
    /\ size(store) = BaseSize + 2
    /\ \E s \in Texts : s # last.arg /\ created[s] = {BaseSize + 1}
                         /\ store[BaseSize + 1] = s

\* The index has one entry per store entry, each pointing at its own
\* text, and no text is in the store twice.
IndexMatchesStore ==
    /\ Cardinality(DOMAIN symbols) = size(store)
    /\ \A s \in DOMAIN symbols :
           symbols[s] + 1 \in 1 .. size(store) /\ store[symbols[s] + 1] = s
    /\ Cardinality({operatorSubscript(store, i).text : i \in 1 .. size(store)})
           = size(store)

\* A step that adds a store entry, which only insert() does, adds a text
\* the index did not hold.
InsertOnlyNew ==
    size(store') > size(store) =>
        /\ size(store') = size(store) + 1
        /\ store'[size(store')] \notin DOMAIN symbols

\* C18: insert() only ever runs with a text the index does not hold, in
\* the constructor (whose texts are pairwise distinct) and in create();
\* so the index has exactly size() entries, every index entry (text, i)
\* has store[i] = text, and no two identifiers resolve to the same text.
InsertNeverDuplicates ==
    /\ \A i, j \in 1 .. Len(CommonSymbols) :
           i # j => CommonSymbols[i].text # CommonSymbols[j].text
    /\ []IndexMatchesStore
    /\ [][InsertOnlyNew]_vars

\* On a constructed SymbolTable clients created new texts and then one of
\* them, and a pre-inserted text, again.
InsertNeverDuplicatesWitness ==
    /\ table = "SymbolTable"
    /\ Constructed
    /\ size(store) = BaseSize + 2
    /\ last.op = "create" /\ last.again
    /\ created["name"] # {}
    /\ Cardinality(DOMAIN symbols) = size(store)

\* C19 as stated: on a constructed SymbolTable the constants logicAnd,
\* logicOr and logicNot resolve to the texts "logicAnd", "logicOr" and
\* "logicNot", and create("logicAnd") returns the constant logicAnd.
OperatorConstantsNamed ==
    (table = "SymbolTable" /\ Constructed) =>
        /\ operatorSubscript(store, Member("logicAnd")).text = "logicAnd"
        /\ operatorSubscript(store, Member("logicOr")).text = "logicOr"
        /\ operatorSubscript(store, Member("logicNot")).text = "logicNot"
        /\ created["logicAnd"] \subseteq {Member("logicAnd")}
        /\ create(store, symbols, "logicOr").id = Member("logicOr")

(***************************************************************************)
(* Properties of a table shared by threads (SpecThreads).                  *)
(***************************************************************************)

\* C17: two threads whose create(s) calls both found s missing, the second
\* lookup coming before the first insert, both insert s: they return
\* different identifiers, both of which resolve to s.  A text that no
\* thread looked up while another was between its lookup and its insert,
\* as is the case when every create() runs as a whole, has at most one
\* identifier.
RaceBreaksDeduplication ==
    /\ \A t1, t2 \in Threads :
           ( /\ t1 # t2
             /\ threads[t1].pc = "done" /\ threads[t2].pc = "done"
             /\ threads[t1].arg = threads[t2].arg
             /\ threads[t1].missed /\ threads[t2].missed )
           => /\ threads[t1].ret # threads[t2].ret
              /\ operatorSubscript(store, threads[t1].ret).text = threads[t1].arg
              /\ operatorSubscript(store, threads[t2].ret).text = threads[t2].arg
              /\ threads[t1].arg \in overlap
              /\ Cardinality(created[threads[t1].arg]) >= 2
    /\ \A s \in ThreadTexts : s \notin overlap => Cardinality(created[s]) <= 1

\* Two threads raced on one text and returned, and another text was
\* created by both threads one after the other.
RaceBreaksDeduplicationWitness ==
    /\ \E t1, t2 \in Threads :
           /\ t1 # t2
           /\ threads[t1].pc = "done" /\ threads[t2].pc = "done"
           /\ threads[t1].arg = threads[t2].arg
           /\ threads[t1].missed /\ threads[t2].missed
           /\ threads[t1].ret # threads[t2].ret
    /\ \E s \in ThreadTexts : s \notin overlap /\ Cardinality(created[s]) = 1

(***************************************************************************)
(* Properties of records and the builder (SpecScenario, SpecEval).         *)
(***************************************************************************)

\* The calls so far are exactly those of Scenario, in its order.
ScenarioDone == hist # Off /\ Len(hist) = Len(Scenario)

\* The attributes of a record are those of a sequence, each once.
SameAttrs(attrs, seq) ==
    /\ Len(attrs) = Len(seq)
    /\ \E p \in Permutations(1 .. Len(seq)) :
           \A i \in 1 .. Len(seq) : attrs[i] = seq[p[i]]

FullRecordStrictOrder ==
    /\ builder.state = "building" =>
           LET b == Deref(builder.bindings)
           IN  Len(appended[builder.bindings]) = b.capacity_ =>
                   b.size_ = b.capacity_ /\ b.attrs = appended[builder.bindings]
    /\ last.op = "finish" =>
           LET b == Deref(last.ret)
           IN  Len(appended[last.ret]) = b.capacity_ =>
                   /\ b.size_ = b.capacity_
                   /\ \A i, j \in 1 .. Len(b.attrs) :
                          i < j => b.attrs[i].name < b.attrs[j].name

\* The addresses of all records: emptyBindings and those on the heap.
Records == {EmptyBindingsPtr} \cup (1 .. Len(heap))

NoDuplicateIdentifiers ==
    \A a \in Records :
        \A i, j \in 1 .. Len(Deref(a).attrs) :
            i # j => Deref(a).attrs[i].name # Deref(a).attrs[j].name

\* C7: allocBindings(0) returns the address of emptyBindings, whatever was
\* allocated before, and leaves nrAttrsets, nrAttrsInAttrsets and the heap
\* as they were.
AllocZeroShared ==
    (last.op \in {"allocBindings", "buildBindings"} /\ last.capacity = 0) =>
        /\ last.ret = EmptyBindingsPtr
        /\ last.error = NoError
        /\ nrAttrsets = last.nrAttrsetsBefore
        /\ nrAttrsInAttrsets = last.nrAttrsInAttrsetsBefore
        /\ Len(heap) = last.heapSizeBefore

\* allocBindings(0) was called after records had been allocated.
AllocZeroSharedWitness ==
    /\ last.op = "allocBindings"
    /\ last.capacity = 0
    /\ last.ret = EmptyBindingsPtr
    /\ nrAttrsets = MaxAttrsets

\* C8: allocBindings(capacity) with capacity above the maximum of
\* Bindings::size_t throws an Error that carries the capacity, returns no
\* record, allocates nothing, leaves both counters as they were, and the
\* evaluator goes on.
AllocTooBigThrows ==
    (last.op \in {"allocBindings", "buildBindings"} /\ last.capacity > BindingsSizeMax) =>
        /\ last.error = [msg |-> "attribute set of size %d is too big",
                         size |-> last.capacity]
        /\ last.ret = NoPtr
        /\ nrAttrsets = last.nrAttrsetsBefore
        /\ nrAttrsInAttrsets = last.nrAttrsInAttrsetsBefore
        /\ Len(heap) = last.heapSizeBefore
        /\ ~aborted

\* A too big capacity was asked for after a record had been allocated.
AllocTooBigThrowsWitness ==
    /\ last.op = "allocBindings"
    /\ last.capacity = BindingsSizeMax + 1
    /\ last.error # NoError
    /\ nrAttrsets > 0

\* The sum of the capacities of the first k records on the heap: the
\* capacities the successful allocBindings() calls were made with.
RECURSIVE SumCapacities(_, _)
SumCapacities(h, k) ==
    IF k = 0 THEN 0 ELSE SumCapacities(h, k - 1) + h[k].capacity_

\* C16: nrAttrsets is the number of allocBindings() calls that returned a
\* record of their own (capacity not zero, not too big), nrAttrsInAttrsets
\* the sum of the capacities those calls asked for, however few attributes
\* the records hold; alloc() and finish() leave both counters as they were.
CountersCountCapacities ==
    /\ nrAttrsets = Len(heap)
    /\ nrAttrsInAttrsets = SumCapacities(heap, Len(heap))
    /\ last.op \in {"allocBindings", "buildBindings"} =>
           IF last.ret \in {EmptyBindingsPtr, NoPtr}
           THEN /\ nrAttrsets = last.nrAttrsetsBefore
                /\ nrAttrsInAttrsets = last.nrAttrsInAttrsetsBefore
           ELSE /\ nrAttrsets = last.nrAttrsetsBefore + 1
                /\ nrAttrsInAttrsets = last.nrAttrsInAttrsetsBefore + last.capacity
    /\ last.op \in {"alloc", "finish"} =>
           /\ nrAttrsets = last.nrAttrsetsBefore
           /\ nrAttrsInAttrsets = last.nrAttrsInAttrsetsBefore

\* Two records were allocated, with capacities 2 and 1; the first took one
\* attribute and was finished.
CountersCountCapacitiesWitness ==
    /\ last.op = "finish"
    /\ nrAttrsets = 2
    /\ nrAttrsInAttrsets = 3
    /\ Deref(last.ret).capacity_ = 2
    /\ Deref(last.ret).size_ = 1

\* C9: finish() on a builder whose record took k <= capacity attributes
\* returns that record with size k, holding exactly the k declared
\* (identifier, value cell, position) triples, in non-decreasing identifier
\* order; the builder is finished.
FinishReturnsDeclared ==
    last.op = "finish" =>
        LET b == Deref(last.ret)
            declared == appended[last.ret]
        IN  Len(declared) <= b.capacity_ =>
                /\ b.size_ = Len(declared)
                /\ SameAttrs(b.attrs, declared)
                /\ SortedBy(b.attrs)
                /\ builder = [state |-> "finished", bindings |-> last.ret]

\* finish() returned a record with fewer attributes than its capacity and
\* had to reorder them.
FinishReturnsDeclaredWitness ==
    /\ last.op = "finish"
    /\ Deref(last.ret).size_ = 2
    /\ Deref(last.ret).capacity_ = 3
    /\ Deref(last.ret).attrs[1].name < Deref(last.ret).attrs[2].name
    /\ appended[last.ret][1].name > appended[last.ret][2].name
    /\ Deref(last.ret).attrs[1].pos # Deref(last.ret).attrs[2].pos

\* The attributes are in strictly increasing identifier order.
StrictlySorted(attrs) ==
    \A i, j \in 1 .. Len(attrs) : i < j => attrs[i].name < attrs[j].name

\* C15: an allocAttr(vAttrs, name) call that returns has taken one fresh
\* value cell, put Attr(name, that cell) behind the attributes the record
\* held and returned the cell; the attributes the record held are where
\* and what they were, nothing was sorted; so a record that was in strictly
\* increasing identifier order is in that order afterwards only if the new
\* identifier is greater than every identifier it held.
AllocAttrAppendsUnsorted ==
    (last.op = "allocAttr" /\ ~last.abort) =>
        LET b == Deref(last.bindings)
            old == last.before
        IN  /\ last.ret = last.nrValuesBefore + 1
            /\ nrValues = last.nrValuesBefore + 1
            /\ b.size_ = old.size_ + 1
            /\ b.capacity_ = old.capacity_
            /\ b.attrs = Append(old.attrs, Attr(last.name, last.ret, noPos))
            /\ \A a \in Records : \A i \in 1 .. Len(Deref(a).attrs) :
                   Deref(a).attrs[i].value = last.ret
                       => a = last.bindings /\ i = Len(b.attrs)
            /\ (StrictlySorted(old.attrs) /\ StrictlySorted(b.attrs))
                   => \A i \in 1 .. Len(old.attrs) : old.attrs[i].name < last.name

\* allocAttr() put a smaller identifier behind the one attribute of a
\* record that finish() had sorted: the record is no longer sorted.
AllocAttrAppendsUnsortedWitness ==
    /\ last.op = "allocAttr"
    /\ ~last.abort
    /\ last.before.size_ = 1
    /\ last.before.capacity_ >= 2
    /\ last.name < last.before.attrs[1].name
    /\ Deref(last.bindings).size_ = 2
    /\ ~SortedBy(Deref(last.bindings).attrs)

(***************************************************************************)
(* Properties of the primitive registry (SpecRegistry).                    *)
(***************************************************************************)

\* The attribute of record b a descriptor was declared as, if any.
EntryOf(b, info) ==
    { k \in 1 .. Len(b.attrs) :
        /\ store[b.attrs[k].name] = info.name
        /\ b.attrs[k].value \in DOMAIN cells
        /\ cells[b.attrs[k].value] = PrimOp(info) }

RegistryEnabledWitness ==
    /\ baseEnv # NoPtr
    /\ enabledFeatures = {"flakes"}
    /\ Len(primOps) = 2
    /\ primOps[1].experimentalFeature = "flakes"
    /\ primOps[1].doc = "doc"
    /\ EntryOf(Deref(baseEnv), primOps[1]) # {}
    /\ Deref(baseEnv).size_ = 2

====
